---- MODULE Spec2Model ----
(***************************************************************************)
(* A model of the forum application (forumapp): the entity store of        *)
(* models.py, the creation handlers new_topic and new_reply of views.py,   *)
(* and the /load-objects/ endpoint that urls.py routes to                   *)
(* views.load_objects.                                                      *)
(*                                                                          *)
(* Text is modelled as a sequence of one-character strings, so that         *)
(* slugify, int() and str.startswith are computed and not assumed.          *)
(***************************************************************************)
EXTENDS Integers, Sequences, FiniteSets, TLC

VARIABLES categories, topics, replies, now, wk, resp

vars == <<categories, topics, replies, now, wk, resp>>

(***************************************************************************)
(* Bounds of the model.                                                     *)
(***************************************************************************)
MaxCategories == 2
MaxTopics == 2
MaxReplies == 2
MaxTime == 1
MaxRows == 3
MaxQueryRows == 1

\* Python's None where a text is expected: no text of the model equals it.
Null == <<"None">>

\* request.user of a request without a session.
Anonymous == 0

(***************************************************************************)
(* Text helpers.                                                            *)
(***************************************************************************)
UpperChars == {"G", "H", "M", "T"}
LowerChars == {"a", "b", "c", "e", "g", "h", "i", "l", "m", "n", "o", "p",
               "r", "s", "t", "y"}
DigitChars == {"0", "1", "2", "3", "4", "5", "6", "7", "8", "9"}

\* str.lower() on one character of the alphabet in use.
LowerChar(c) ==
    CASE c = "G" -> "g"
      [] c = "H" -> "h"
      [] c = "M" -> "m"
      [] c = "T" -> "t"
      [] OTHER -> c

\* \w of Python's re on ASCII text.
IsWordChar(c) == c \in UpperChars \cup LowerChars \cup DigitChars \cup {"_"}

\* [-\s]
IsDashOrSpace(c) == c \in {"-", " "}

RECURSIVE MapLower(_)
MapLower(s) ==
    IF s = <<>> THEN <<>> ELSE <<LowerChar(Head(s))>> \o MapLower(Tail(s))

\* re.sub(r'[^\w\s-]', '', value)
RECURSIVE DropOther(_)
DropOther(s) ==
    IF s = <<>> THEN <<>>
    ELSE IF IsWordChar(Head(s)) \/ IsDashOrSpace(Head(s))
         THEN <<Head(s)>> \o DropOther(Tail(s))
         ELSE DropOther(Tail(s))

\* re.sub(r'[-\s]+', '-', value)
RECURSIVE Collapse(_)
Collapse(s) ==
    IF s = <<>> THEN <<>>
    ELSE IF IsDashOrSpace(Head(s))
         THEN IF Tail(s) # <<>> /\ IsDashOrSpace(Head(Tail(s)))
              THEN Collapse(Tail(s))
              ELSE <<"-">> \o Collapse(Tail(s))
         ELSE <<Head(s)>> \o Collapse(Tail(s))

RECURSIVE LStrip(_, _)
LStrip(s, chars) ==
    IF s # <<>> /\ Head(s) \in chars THEN LStrip(Tail(s), chars) ELSE s

RECURSIVE RStrip(_, _)
RStrip(s, chars) ==
    IF s # <<>> /\ s[Len(s)] \in chars
    THEN RStrip(SubSeq(s, 1, Len(s) - 1), chars)
    ELSE s

Strip(s, chars) == RStrip(LStrip(s, chars), chars)

\* django.utils.text.slugify as models.py calls it.
slugify(value) == Strip(Collapse(DropOther(MapLower(value))), {"-", "_"})

DigitValue(c) ==
    CASE c = "0" -> 0 [] c = "1" -> 1 [] c = "2" -> 2 [] c = "3" -> 3
      [] c = "4" -> 4 [] c = "5" -> 5 [] c = "6" -> 6 [] c = "7" -> 7
      [] c = "8" -> 8 [] c = "9" -> 9

RECURSIVE DigitsValue(_, _)
DigitsValue(s, acc) ==
    IF s = <<>> THEN acc ELSE DigitsValue(Tail(s), 10 * acc + DigitValue(Head(s)))

IsDigits(s) == s # <<>> /\ \A i \in 1..Len(s) : s[i] \in DigitChars

\* int(text): surrounding blanks are ignored, one sign is allowed, and the
\* rest must be digits; anything else raises ValueError.
IntBody(s) == Strip(s, {" "})
IntUnsigned(s) == IF IntBody(s) # <<>> /\ Head(IntBody(s)) \in {"-", "+"}
                  THEN Tail(IntBody(s)) ELSE IntBody(s)
IntParses(s) == IsDigits(IntUnsigned(s))
IntValue(s) ==
    IF Head(IntBody(s)) = "-"
    THEN 0 - DigitsValue(IntUnsigned(s), 0)
    ELSE DigitsValue(IntUnsigned(s), 0)

\* str(n) for the small non-negative numbers of the model.
DigitChar(d) ==
    CASE d = 0 -> "0" [] d = 1 -> "1" [] d = 2 -> "2" [] d = 3 -> "3"
      [] d = 4 -> "4" [] d = 5 -> "5" [] d = 6 -> "6" [] d = 7 -> "7"
      [] d = 8 -> "8" [] d = 9 -> "9"

RECURSIVE StrOfNat(_)
StrOfNat(n) ==
    IF n < 10 THEN <<DigitChar(n)>>
    ELSE StrOfNat(n \div 10) \o <<DigitChar(n % 10)>>

(***************************************************************************)
(* The entity store (models.py).                                            *)
(***************************************************************************)
Users == {1}

S_General == <<"G", "e", "n", "e", "r", "a", "l">>
S_MyTopics == <<"M", "y", "T", "o", "p", "i", "c", "s">>
S_My_Topics == <<"M", "y", " ", "T", "o", "p", "i", "c", "s">>
S_Test == <<"T", "e", "s", "t">>
S_test == <<"t", "e", "s", "t">>
S_HiBang == <<"H", "i", "!">>
S_hi == <<"h", "i">>
S_nonexistent == <<"n", "o", "n", "e">>

\* Category.save
CategorySave(inst) ==
    IF inst.slug = <<>> THEN [inst EXCEPT !.slug = slugify(inst.name)] ELSE inst

\* Topic.save
TopicSave(inst) ==
    IF inst.slug = <<>> THEN [inst EXCEPT !.slug = slugify(inst.title)] ELSE inst

\* Reply.save: created_at and the slug are set together, from the clock.
ReplySave(inst, clock) ==
    IF inst.slug = <<>>
    THEN [inst EXCEPT
            !.created_at = clock,
            !.slug = slugify(StrOfNat(inst.topic) \o <<"-">>
                             \o StrOfNat(inst.author) \o <<"-">>
                             \o StrOfNat(clock))]
    ELSE inst

\* unique=True on Category.name and on the three slug fields: the INSERT
\* is refused (IntegrityError) when a row of the table has the value.
CategoryUnique(rows, inst) ==
    \A r \in rows : r.name # inst.name /\ r.slug # inst.slug

SlugUniqueLax(rows, inst) == TRUE

SlugUnique(rows, inst) == \A r \in rows : r.slug # inst.slug

\* The primary key the database gives a new row (rows are never deleted).
NewId(rows) == Cardinality(rows) + 1

(***************************************************************************)
(* The creation handlers.  A handler runs in one of two workers; between   *)
(* the step that builds the record (look-ups, validation, the save()       *)
(* override) and the INSERT, the other worker may run.                      *)
(***************************************************************************)
Workers == {1, 2}

Idle == [pc |-> "idle"]

\* What a handler answered, and the part of its request the answer is
\* judged by: whether it carried a session, whether its body was JSON, and
\* the topic_slug it named.
Response(handler, user, json_ok, slug, status, body) ==
    [handler |-> handler, auth |-> (user # Anonymous), json_ok |-> json_ok,
     slug |-> slug, status |-> status, body |-> body]

NoResponse == Response("none", Anonymous, FALSE, <<>>, 0, "none")

DictGet(d, k) == IF k \in DOMAIN d THEN d[k] ELSE Null

\* A CharField of a ModelForm: blanks are stripped and the rest is required.
FormText(d, k) == IF k \in DOMAIN d THEN Strip(d[k], {" "}) ELSE <<>>

\* NewTopicForm.is_valid(): title and content are required.
NewTopicFormValid(d) == FormText(d, "title") # <<>> /\ FormText(d, "content") # <<>>

\* The records of one kind a worker is about to INSERT.
InFlight(kind) == Cardinality({w \in Workers : wk[w].pc = "insert" /\ wk[w].kind = kind})

\* Category(name=..., slug=...).save() by fixture or admin action.
CategoryCreate(w, name, slug) ==
    /\ wk[w].pc = "idle"
    /\ Cardinality(categories) + InFlight("Category") < MaxCategories
    /\ wk' = [wk EXCEPT ![w] =
                [pc |-> "insert", kind |-> "Category", user |-> Anonymous,
                 inst |-> CategorySave([id |-> 0, name |-> name, slug |-> slug])]]
    /\ UNCHANGED <<categories, topics, replies, now, resp>>

\* new_topic, up to topic.save()'s INSERT.
new_topic(w, user, method, category_id, d) ==
    /\ wk[w].pc = "idle"
    /\ Cardinality(topics) + InFlight("Topic") < MaxTopics
    /\ LET found == {c \in categories : c.id = category_id}
           done(status, body) ==
               /\ resp' = Response("new_topic", user, TRUE, <<>>, status, body)
               /\ UNCHANGED wk
       IN  IF user = Anonymous THEN done(302, "login")
           ELSE IF method # "POST" THEN done(200, "form")
           ELSE IF found = {} THEN done(404, "not found")
           ELSE LET category == CHOOSE c \in found : TRUE
                IN  IF category.name = S_MyTopics
                    THEN done(200, "Invalid category selected")
                    ELSE IF ~NewTopicFormValid(d) THEN done(200, "form errors")
                    ELSE /\ wk' = [wk EXCEPT ![w] =
                                    [pc |-> "insert", kind |-> "Topic",
                                     user |-> user,
                                     inst |-> TopicSave(
                                        [id |-> 0, title |-> FormText(d, "title"),
                                         slug |-> <<>>,
                                         category |-> category.id,
                                         author |-> user])]]
                         /\ UNCHANGED resp
    /\ UNCHANGED <<categories, topics, replies, now>>

NewReplyErrorStatusAlways500(exc) == 500

\* The except clauses of new_reply.
NewReplyErrorStatus(exc) == IF exc = "DoesNotExist" THEN 404 ELSE 500

\* new_reply, up to reply.save()'s INSERT.  body is the request body:
\* json_ok says whether json.loads accepts it, data is the decoded object.
new_reply(w, user, body) ==
    /\ wk[w].pc = "idle"
    /\ Cardinality(replies) + InFlight("Reply") < MaxReplies
    /\ LET d == body.data
           found == {t \in topics : t.slug = DictGet(d, "topic_slug")}
           done(status, text) ==
               /\ resp' = Response("new_reply", user, body.json_ok,
                                   DictGet(d, "topic_slug"), status, text)
               /\ UNCHANGED wk
       IN  IF user = Anonymous THEN done(302, "login")
           ELSE IF ~body.json_ok
                THEN done(NewReplyErrorStatus("JSONDecodeError"), "error")
           ELSE IF found = {}
                THEN done(NewReplyErrorStatus("DoesNotExist"), "error")
           ELSE LET topic == CHOOSE t \in found : TRUE
                IN  /\ wk' = [wk EXCEPT ![w] =
                                [pc |-> "insert", kind |-> "Reply",
                                 user |-> user,
                                 inst |-> ReplySave(
                                    [id |-> 0, topic |-> topic.id,
                                     author |-> user,
                                     content |-> DictGet(d, "reply"),
                                     created_at |-> 0, slug |-> <<>>], now)]]
                    /\ UNCHANGED resp
    /\ UNCHANGED <<categories, topics, replies, now>>

\* super().save(): the INSERT, and what the handler answers after it.
Insert(w) ==
    /\ wk[w].pc = "insert"
    /\ LET inst == wk[w].inst
           answer(handler, slug, status, body) ==
               resp' = Response(handler, wk[w].user, TRUE, slug, status, body)
       IN  CASE wk[w].kind = "Category" ->
                  /\ IF CategoryUnique(categories, inst)
                     THEN /\ categories' = categories \cup
                                 {[inst EXCEPT !.id = NewId(categories)]}
                          /\ answer("admin", <<>>, 200, "saved")
                     ELSE /\ UNCHANGED categories
                          /\ answer("admin", <<>>, 500, "IntegrityError")
                  /\ UNCHANGED <<topics, replies>>
             [] wk[w].kind = "Topic" ->
                  /\ IF SlugUnique(topics, inst)
                     THEN /\ topics' = topics \cup {[inst EXCEPT !.id = NewId(topics)]}
                          /\ answer("new_topic", <<>>, 302, "category_detail")
                     ELSE /\ UNCHANGED topics
                          /\ answer("new_topic", <<>>, 500, "IntegrityError")
                  /\ UNCHANGED <<categories, replies>>
             [] wk[w].kind = "Reply" ->
                  LET slug == CHOOSE s \in {t.slug : t \in {t \in topics : t.id = inst.topic}} : TRUE
                  IN
                  /\ IF inst.content # Null /\ SlugUnique(replies, inst)
                     THEN /\ replies' = replies \cup {[inst EXCEPT !.id = NewId(replies)]}
                          /\ answer("new_reply", slug, 200, "success")
                     ELSE /\ UNCHANGED replies
                          /\ answer("new_reply", slug,
                                    NewReplyErrorStatus("IntegrityError"), "error")
                  /\ UNCHANGED <<categories, topics>>
    /\ wk' = [wk EXCEPT ![w] = Idle]
    /\ UNCHANGED now

\* A second passes on the clock datetime.now() reads.
Tick ==
    /\ now < MaxTime
    /\ now' = now + 1
    /\ UNCHANGED <<categories, topics, replies, wk, resp>>

\* The inputs of the handlers.
CategoryInputs == {<<S_General, <<>>>>, <<S_MyTopics, S_MyTopics>>}
TopicForms ==
    {[k \in {"title", "content"} |-> IF k = "title" THEN t ELSE S_hi] :
        t \in {S_Test, S_test, S_HiBang}}
    \cup {[k \in {"title"} |-> S_Test]}
ReplyBodies ==
    {[json_ok |-> FALSE, data |-> <<>>]}
    \cup {[json_ok |-> TRUE, data |-> [k \in {"reply", "topic_slug"} |->
                                         IF k = "reply" THEN S_hi ELSE s]] :
            s \in {S_test, S_nonexistent}}
    \cup {[json_ok |-> TRUE, data |-> [k \in {"topic_slug"} |-> S_test]]}

Init ==
    /\ categories = {}
    /\ topics = {}
    /\ replies = {}
    /\ now = 0
    /\ wk = [w \in Workers |-> Idle]
    /\ resp = NoResponse

Next ==
    \/ \E w \in Workers, c \in CategoryInputs : CategoryCreate(w, c[1], c[2])
    \/ \E w \in Workers, user \in {Anonymous} \cup Users,
          method \in {"GET", "POST"}, category_id \in 1..(MaxCategories + 1),
          d \in TopicForms :
          new_topic(w, user, method, category_id, d)
    \/ \E w \in Workers, user \in {Anonymous} \cup Users, body \in ReplyBodies :
          new_reply(w, user, body)
    \/ \E w \in Workers : Insert(w)
    \/ Tick

Spec == Init /\ [][Next]_vars

(***************************************************************************)
(* Later saves.  A stored record is loaded, its source field is edited and *)
(* save() is called again (admin change form or shell); the UPDATE is      *)
(* refused when another row holds the name or slug.                         *)
(***************************************************************************)
Resave(w, kind, id, text) ==
    /\ wk[w].pc = "idle"
    /\ LET answer(ok) ==
               resp' = Response("admin", Anonymous, TRUE, <<>>,
                                IF ok THEN 200 ELSE 500,
                                IF ok THEN "saved" ELSE "IntegrityError")
       IN  CASE kind = "Category" ->
                  /\ \E r \in categories :
                        /\ r.id = id
                        /\ LET saved == CategorySave([r EXCEPT !.name = text])
                               ok == CategoryUnique(categories \ {r}, saved)
                           IN  /\ categories' = IF ok
                                                THEN (categories \ {r}) \cup {saved}
                                                ELSE categories
                               /\ answer(ok)
                  /\ UNCHANGED <<topics, replies>>
             [] kind = "Topic" ->
                  /\ \E r \in topics :
                        /\ r.id = id
                        /\ LET saved == TopicSave([r EXCEPT !.title = text])
                               ok == SlugUnique(topics \ {r}, saved)
                           IN  /\ topics' = IF ok THEN (topics \ {r}) \cup {saved}
                                            ELSE topics
                               /\ answer(ok)
                  /\ UNCHANGED <<categories, replies>>
             [] kind = "Reply" ->
                  /\ \E r \in replies :
                        /\ r.id = id
                        /\ LET saved == ReplySave([r EXCEPT !.content = text], now)
                               ok == SlugUnique(replies \ {r}, saved)
                           IN  /\ replies' = IF ok THEN (replies \ {r}) \cup {saved}
                                             ELSE replies
                               /\ answer(ok)
                  /\ UNCHANGED <<categories, topics>>
    /\ UNCHANGED <<now, wk>>

\* category_detail lists the requesting user's topics, and not the
\* category's own, for the category of this name.
IsVirtualCategory(category) == category.name = S_My_Topics

\* The topics category_detail shows for a category.
CategoryDetailTopics(user, category) ==
    IF IsVirtualCategory(category)
    THEN {t \in topics : t.author = user}
    ELSE {t \in topics : t.category = category.id}

\* The inputs of a sequence of submissions and later saves by one worker.
S_Bang == <<"!">>
SoleWorker == CHOOSE w \in Workers : TRUE
SaveCategoryInputs == {<<S_General, <<>>>>, <<S_My_Topics, S_MyTopics>>}
SaveTopicForms ==
    {[k \in {"title", "content"} |-> IF k = "title" THEN t ELSE S_hi] :
        t \in {S_Test, S_HiBang, S_Bang}}
SaveReplyBodies ==
    {[json_ok |-> TRUE, data |-> [k \in {"reply", "topic_slug"} |->
                                    IF k = "reply" THEN S_hi ELSE s]] :
        s \in {S_test, <<>>}}
EditTexts == {S_Test, S_hi}

NextSave ==
    \/ \E c \in SaveCategoryInputs : CategoryCreate(SoleWorker, c[1], c[2])
    \/ \E user \in Users, category_id \in 1..MaxCategories, d \in SaveTopicForms :
          new_topic(SoleWorker, user, "POST", category_id, d)
    \/ \E user \in Users, body \in SaveReplyBodies : new_reply(SoleWorker, user, body)
    \/ Insert(SoleWorker)
    \/ Tick
    \/ \E kind \in {"Category", "Topic", "Reply"},
          id \in 1..(MaxCategories + MaxTopics + MaxReplies), text \in EditTexts :
          Resave(SoleWorker, kind, id, text)

SpecSave == Init /\ [][NextSave]_vars

(***************************************************************************)
(* C11: a record's slug is computed at its first save from its source      *)
(* field, and every later save, also one after the source field changed,   *)
(* leaves the slug (and a Reply's created_at) as it was.                    *)
(***************************************************************************)
C11_FirstSave ==
    /\ \A t \in topics' :
          (\A r \in topics : r.id # t.id) => t.slug = slugify(t.title)
    /\ \A p \in replies' :
          (\A r \in replies : r.id # p.id) =>
             p.slug = StrOfNat(p.topic) \o <<"-">> \o StrOfNat(p.author)
                         \o <<"-">> \o StrOfNat(p.created_at)

C11_LaterSave ==
    /\ \A r \in categories, c \in categories' : r.id = c.id => c.slug = r.slug
    /\ \A r \in topics, t \in topics' : r.id = t.id => t.slug = r.slug
    /\ \A r \in replies, p \in replies' :
          r.id = p.id => (p.slug = r.slug /\ p.created_at = r.created_at)

C11_SlugComputedOnce == [][C11_FirstSave /\ C11_LaterSave]_vars

(***************************************************************************)
(* C12: after any sequence of /new-topic/ submissions no persisted Topic   *)
(* has the virtual "My Topics" category, the one category_detail lists the *)
(* requesting user's topics for, as its category.                           *)
(***************************************************************************)
C12_NoTopicInVirtualCategory ==
    \A t \in topics : \A c \in categories :
        c.id = t.category => ~IsVirtualCategory(c)

(***************************************************************************)
(* /load-objects/: urls.py routes it to views.load_objects, which uses the *)
(* allow-lists and validators that views.py itself defines.                 *)
(***************************************************************************)
K_annotate_ == <<"a", "n", "n", "o", "t", "a", "t", "e", "_">>
K_author_name == <<"a", "u", "t", "h", "o", "r", "_", "n", "a", "m", "e">>
K_replies == <<"r", "e", "p", "l", "i", "e", "s">>
K_count == <<"_", "c", "o", "u", "n", "t">>
K_bogus == <<"b", "o", "g", "u", "s">>
K_format_function == <<"f", "o", "r", "m", "a", "t", "_", "f", "u", "n", "c",
                       "t", "i", "o", "n">>
K_format_args == <<"f", "o", "r", "m", "a", "t", "_", "a", "r", "g", "s", "[", "]">>
K_related_counts == <<"r", "e", "l", "a", "t", "e", "d", "_", "c", "o", "u",
                      "n", "t", "s">>

\* views.py, lines 21 to 23.
ALLOWED_MODELS == {"Reply", "Category"}
ALLOWED_FILTER_PARAMS == {"topic__slug"}
ALLOWED_ANNOTATIONS == {K_author_name, K_replies \o K_count}

\* The models apps.get_model finds in forumapp.
AppModels == {"Category", "Topic", "Reply"}

\* Restrict(d, keys): the dict d without the keys outside keys.
Restrict(d, keys) == [k \in DOMAIN d \cap keys |-> d[k]]

\* views.validate_filter_params
validate_filter_params(params) == Restrict(params, ALLOWED_FILTER_PARAMS)

\* str.startswith
StartsWith(s, prefix) ==
    Len(s) >= Len(prefix) /\ SubSeq(s, 1, Len(prefix)) = prefix

\* key[len(prefix):]
DropPrefix(s, prefix) == SubSeq(s, Len(prefix) + 1, Len(s))

\* QueryDict.items() gives each key with the last of its values.
Last(list) == list[Len(list)]

\* views.validate_annotations: the name of each kept annotation, with the
\* field path its F() refers to.
validate_annotations(params) ==
    LET kept == {k \in DOMAIN params :
                    /\ StartsWith(k, K_annotate_)
                    /\ DropPrefix(k, K_annotate_) \in ALLOWED_ANNOTATIONS}
    IN  [n \in {DropPrefix(k, K_annotate_) : k \in kept} |->
            Last(params[K_annotate_ \o n])]

\* The rows of a model's table, in primary-key order.
RECURSIVE ById(_)
ById(rows) ==
    IF rows = {} THEN <<>>
    ELSE LET r == CHOOSE x \in rows : \A y \in rows : x.id <= y.id
         IN  <<r>> \o ById(rows \ {r})

ModelRows(model) ==
    CASE model = "Category" -> categories
      [] model = "Topic" -> topics
      [] model = "Reply" -> replies

\* The filter paths that resolve on each model (the fields of models.py).
FilterPaths(model) ==
    CASE model = "Category" -> {}
      [] model = "Topic" -> {"category__slug", "author_id"}
      [] model = "Reply" -> {"topic__slug", "author_id"}

\* The field paths an F() may name on each model.
FieldPaths(model) ==
    CASE model = "Category" -> {"name"}
      [] model = "Topic" -> {"title", "author__username"}
      [] model = "Reply" -> {"content", "author__username"}

\* Whether a row passes one exact-match condition of filter(**filter_params).
RowMatches(model, row, key, value) ==
    CASE key = "topic__slug" ->
            \E t \in topics : t.id = row.topic /\ t.slug = value
      [] key = "category__slug" ->
            \E c \in categories : c.id = row.category /\ c.slug = value
      [] key = "author_id" -> row.author = IntValue(value)

\* The exception that filter()/annotate() raise while the query is composed,
\* or "none".
ComposeError(model, filter_params, annotations) ==
    IF \E k \in DOMAIN filter_params : k \notin FilterPaths(model)
    THEN "FieldError"
    ELSE IF "author_id" \in DOMAIN filter_params
            /\ ~IntParses(filter_params["author_id"])
    THEN "ValueError"
    ELSE IF \E n \in DOMAIN annotations : annotations[n] \notin FieldPaths(model)
    THEN "FieldError"
    ELSE "none"

ExcludeVirtualNever(model, auth, rows) == rows

\* if model_name == 'Category' and not request.user.is_authenticated:
\*     objects = objects.exclude(slug='MyTopics')
ExcludeVirtual(model, auth, rows) ==
    IF model = "Category" /\ ~auth
    THEN {r \in rows : r.slug # S_MyTopics}
    ELSE rows

\* model.objects.filter(**filter_params), then the exclusion.
QueryRows(model, filter_params, auth) ==
    ById(ExcludeVirtual(model, auth,
            {r \in ModelRows(model) :
                \A k \in DOMAIN filter_params :
                    RowMatches(model, r, k, filter_params[k])}))

\* django.core.paginator: Paginator(objects, per_page).get_page(page).
CeilDiv(a, b) == IF b > 0 THEN (a + b - 1) \div b ELSE 0 - (a \div (0 - b))

NumPages(count, per_page) == CeilDiv(IF count > 1 THEN count ELSE 1, per_page)

\* get_page: a number below 1 or beyond the last page gives the last page.
PageNumber(count, per_page, page) ==
    IF page < 1 \/ page > NumPages(count, per_page)
    THEN NumPages(count, per_page)
    ELSE page

\* The exception raised while paginating, or "none".
PaginateError(count, per_page, page) ==
    IF per_page = 0 THEN "ZeroDivisionError"
    ELSE IF PageNumber(count, per_page, page) < 1 THEN "EmptyPage"
    ELSE "none"

PageBottom(count, per_page, page) == (PageNumber(count, per_page, page) - 1) * per_page

PageTop(count, per_page, page) ==
    IF PageBottom(count, per_page, page) + per_page >= count
    THEN count
    ELSE PageBottom(count, per_page, page) + per_page

PageObjects(rows, per_page, page) ==
    SubSeq(rows, PageBottom(Len(rows), per_page, page) + 1,
           PageTop(Len(rows), per_page, page))

HasNext(count, per_page, page) ==
    PageNumber(count, per_page, page) < NumPages(count, per_page)

\* int(request.POST.get('page', 1)) and int(request.POST.get('per_page', 7))
DefaultPage == 1
DefaultPerPage == 7

\* request.GET.get(key) / request.GET.getlist(key, [])
GetList(GET, key) == IF key \in DOMAIN GET THEN GET[key] ELSE <<>>

\* get_format_function: the selected format function ("none" when the
\* selector is absent or unknown) and its arguments.
FormatFunction(GET) ==
    IF K_format_function \in DOMAIN GET
       /\ Last(GET[K_format_function]) = "datetime_format"
    THEN "format_date_field"
    ELSE "none"

\* The exception raised while the page is serialized, or "none":
\* format_date_field(obj_dict, obj, date_field_name) takes one argument
\* after the object and reads obj.created_at.
SerializeError(model, GET, objects) ==
    IF objects = <<>> \/ FormatFunction(GET) = "none" THEN "none"
    ELSE IF Len(GetList(GET, K_format_args)) # 1 THEN "TypeError"
    ELSE IF model = "Category" THEN "AttributeError"
    ELSE "none"

LoadResponse(request, status, stage, error, filters, annotations, queried, objects, has_next) ==
    [handler |-> "load_objects", request |-> request, status |-> status,
     stage |-> stage, error |-> error, filters |-> filters,
     annotations |-> annotations, queried |-> queried, objects |-> objects,
     has_next |-> has_next]

NoLoadResponse ==
    [LoadResponse([method |-> "none", auth |-> FALSE, POST |-> <<>>, GET |-> <<>>,
                   db_ok |-> TRUE],
                  0, "none", "none", <<>>, <<>>, FALSE, <<>>, FALSE)
        EXCEPT !.handler = "none"]

\* views.load_objects: what it answers to a request.  db_ok says whether
\* the database runs the query when the paginator finally evaluates it.
LoadObjectsResponse(request) ==
    LET POST == request.POST
        GET == request.GET
        fail(status, stage, error, filters, annotations, queried) ==
            LoadResponse(request, status, stage, error, filters, annotations,
                         queried, <<>>, FALSE)
    IN
    IF request.method # "POST"
    THEN fail(405, "method", "none", <<>>, <<>>, FALSE)
    ELSE IF "page" \in DOMAIN POST /\ ~IntParses(POST["page"])
    THEN fail(500, "parse", "ValueError", <<>>, <<>>, FALSE)
    ELSE IF "per_page" \in DOMAIN POST /\ ~IntParses(POST["per_page"])
    THEN fail(500, "parse", "ValueError", <<>>, <<>>, FALSE)
    ELSE IF "model" \notin DOMAIN POST \/ POST["model"] \notin ALLOWED_MODELS
    THEN fail(400, "model", "Invalid or disallowed model", <<>>, <<>>, FALSE)
    ELSE IF POST["model"] \notin AppModels
    THEN fail(400, "model", "LookupError", <<>>, <<>>, FALSE)
    ELSE
    LET page == IF "page" \in DOMAIN POST THEN IntValue(POST["page"])
                ELSE DefaultPage
        per_page == IF "per_page" \in DOMAIN POST THEN IntValue(POST["per_page"])
                    ELSE DefaultPerPage
        model == POST["model"]
        filter_params ==
            validate_filter_params(
                Restrict(POST, DOMAIN POST \ {"page", "per_page", "model"}))
        annotations == validate_annotations(GET)
    IN
    IF ComposeError(model, filter_params, annotations) # "none"
    THEN fail(400, "compose", ComposeError(model, filter_params, annotations),
              filter_params, annotations, FALSE)
    ELSE IF ~request.db_ok
    THEN fail(500, "paginate", "OperationalError", filter_params, annotations, TRUE)
    ELSE
    LET rows == QueryRows(model, filter_params, request.auth)
    IN
    IF PaginateError(Len(rows), per_page, page) # "none"
    THEN fail(500, "paginate", PaginateError(Len(rows), per_page, page),
              filter_params, annotations, TRUE)
    ELSE IF SerializeError(model, GET, PageObjects(rows, per_page, page)) # "none"
    THEN fail(500, "serialize",
              SerializeError(model, GET, PageObjects(rows, per_page, page)),
              filter_params, annotations, TRUE)
    ELSE LoadResponse(request, 200, "done", "none", filter_params, annotations,
                      TRUE, PageObjects(rows, per_page, page),
                      HasNext(Len(rows), per_page, page))

\* One request to /load-objects/.  The handler reads the store and its
\* request and writes nothing, so a behaviour is one request on one store.
load_objects(request) ==
    /\ resp' = LoadObjectsResponse(request)
    /\ UNCHANGED <<categories, topics, replies, now, wk>>

(***************************************************************************)
(* The stores the endpoint is asked about: those that saving n Topics and  *)
(* m Replies through the save() overrides leaves, with or without the      *)
(* fixture row of the virtual category.                                     *)
(***************************************************************************)
TitleOf(i) == <<"T">> \o StrOfNat(i)

StoredCategories(virtual) ==
    {[CategorySave([id |-> 0, name |-> S_General, slug |-> <<>>]) EXCEPT !.id = 1]}
    \cup (IF virtual
          THEN {[CategorySave([id |-> 0, name |-> S_My_Topics, slug |-> S_MyTopics])
                    EXCEPT !.id = 2]}
          ELSE {})

StoredTopics(n) ==
    {[TopicSave([id |-> 0, title |-> TitleOf(i), slug |-> <<>>, category |-> 1,
                 author |-> 1]) EXCEPT !.id = i] : i \in 1..n}

StoredReplies(n) ==
    {[ReplySave([id |-> 0, topic |-> 1, author |-> 1, content |-> S_hi,
                 created_at |-> 0, slug |-> <<>>], i) EXCEPT !.id = i] : i \in 1..n}

InitStore(maxRows) ==
    \E nT \in 0..maxRows, nR \in 0..maxRows, virtual \in BOOLEAN :
        /\ nR > 0 => nT > 0
        /\ categories = StoredCategories(virtual)
        /\ topics = StoredTopics(nT)
        /\ replies = StoredReplies(nR)
        /\ now = maxRows
        /\ wk = [w \in Workers |-> Idle]
        /\ resp = NoLoadResponse

\* The parts requests are put together from.
EmptyDict == [k \in {} |-> <<>>]
S_abc == <<"a", "b", "c">>
S_one_half == <<"1", ".", "5">>
S_t1 == <<"t", "1">>

ModelParts ==
    {EmptyDict} \cup {("model" :> m) : m \in {"Reply", "Category", "Topic", "User"}}
PageParts ==
    {EmptyDict} \cup {("page" :> v) :
        v \in {S_abc, <<"-", "1">>, <<"0">>, <<"1">>, <<"2">>, <<"3">>}}
PerPageParts ==
    {EmptyDict} \cup {("per_page" :> v) :
        v \in {S_one_half, <<"-", "1">>, <<"0">>, <<"1">>, <<"2">>}}

FilterKeys == {"topic__slug", "category__slug", "author_id", "title"}
FilterValue(k) ==
    CASE k = "topic__slug" -> S_t1
      [] k = "category__slug" -> slugify(S_General)
      [] k = "author_id" -> <<"1">>
      [] k = "title" -> TitleOf(1)
FilterParts ==
    {[k \in keys |-> FilterValue(k)] : keys \in SUBSET FilterKeys}
    \cup {("topic__slug" :> S_nonexistent)}

AnnotationParts ==
    {EmptyDict}
    \cup {(k :> <<"author__username">>) :
            k \in {K_annotate_ \o K_author_name, K_author_name,
                   K_annotate_ \o K_replies, K_replies,
                   K_annotate_ \o K_replies \o K_count,
                   K_annotate_ \o K_bogus}}
    \cup {(K_annotate_ \o K_replies \o K_count) :> <<"bogus">>,
          (K_annotate_ \o K_replies :> <<"author__username">>)
              @@ (K_replies :> <<"author__username">>),
          (K_annotate_ \o K_author_name :> <<"author__username">>)
              @@ (K_annotate_ \o K_replies \o K_count :> <<"content">>)}

RelatedCountParts ==
    {EmptyDict} \cup {(K_related_counts :> <<fields>>) :
        fields \in {<<K_replies>>, <<K_replies, K_bogus>>}}

FormatParts ==
    {EmptyDict,
     (K_format_function :> <<"datetime_format">>)
        @@ (K_format_args :> <<"created_at">>),
     (K_format_function :> <<"datetime_format">>),
     (K_format_function :> <<"upper">>)}

Request(method, auth, POST, GET, db_ok) ==
    [method |-> method, auth |-> auth, POST |-> POST, GET |-> GET, db_ok |-> db_ok]

\* Requests that vary the model and the page.
PageRequests ==
    {Request("POST", auth, m @@ p @@ pp, EmptyDict, TRUE) :
        auth \in BOOLEAN, m \in ModelParts, p \in PageParts, pp \in PerPageParts}
    \cup {Request("GET", FALSE, ("model" :> "Reply"), EmptyDict, TRUE)}

\* Requests that vary the filters, the annotations and the format function.
QueryRequests ==
    {Request("POST", q[1], ("model" :> q[2]) @@ q[3], q[4] @@ q[5] @@ q[6], q[7]) :
        q \in BOOLEAN \X {"Reply", "Category", "Topic"} \X FilterParts
              \X AnnotationParts \X RelatedCountParts \X FormatParts \X BOOLEAN}

InitPage == InitStore(MaxRows)

\* No request has been answered yet.
Waiting == resp = NoLoadResponse

NextPage == Waiting /\ \E request \in PageRequests : load_objects(request)

SpecPage == InitPage /\ [][NextPage]_vars

InitQuery == InitStore(MaxQueryRows)

NextQuery == Waiting /\ \E request \in QueryRequests : load_objects(request)

SpecQuery == InitQuery /\ [][NextQuery]_vars

(***************************************************************************)
(* What the claims about /load-objects/ speak of.                           *)
(***************************************************************************)
Answered == resp.handler = "load_objects"

\* The handler got as far as assembling the query.
Assembled == Answered /\ resp.stage \in {"compose", "paginate", "serialize", "done"}

PostOf == resp.request.POST
GetOf == resp.request.GET

\* The filter keys a request supplies: its POST keys other than the
\* endpoint's own parameters.
SuppliedFilters == Restrict(PostOf, DOMAIN PostOf \ {"page", "per_page", "model"})

\* The allow-lists as the external contract states them.
ContractModels == {"Reply", "Category", "Topic"}
ContractFilterParams == {"topic__slug", "category__slug", "author_id"}
ContractAnnotations == {K_author_name, K_replies}

\* An annotation key without its annotate_ prefix, if it has one.
BareName(k) == IF StartsWith(k, K_annotate_) THEN DropPrefix(k, K_annotate_) ELSE k

Objects == {resp.objects[i] : i \in 1..Len(resp.objects)}

(***************************************************************************)
(* C1: the filter mapping applied to the query holds exactly the supplied  *)
(* keys that are in {topic__slug, category__slug, author_id}, each with    *)
(* its supplied value.                                                      *)
(***************************************************************************)
C1_FiltersAreAllowedSupplied ==
    Assembled => resp.filters = Restrict(SuppliedFilters, ContractFilterParams)

(***************************************************************************)
(* C2: a bare annotation key and its annotate_ form give the same          *)
(* annotation, and the annotations applied are exactly the requested names *)
(* that are in {author_name, replies}.                                      *)
(***************************************************************************)
C2_AnnotationsAreAllowedRequested ==
    Assembled =>
        DOMAIN resp.annotations =
            {BareName(k) : k \in DOMAIN GetOf} \cap ContractAnnotations

(***************************************************************************)
(* C3: a related-count list with a field outside the allow-list fails the  *)
(* whole request with 400 and no objects; a list of allowed fields gives   *)
(* each field f a count annotation f_count.                                 *)
(***************************************************************************)
RelatedCountFields ==
    IF K_related_counts \in DOMAIN GetOf
    THEN {Last(GetOf[K_related_counts])[i] :
            i \in 1..Len(Last(GetOf[K_related_counts]))}
    ELSE {}

C3_RelatedCounts ==
    (Assembled /\ RelatedCountFields # {}) =>
        IF RelatedCountFields \subseteq ContractAnnotations
        THEN resp.status = 200 =>
                \A f \in RelatedCountFields : (f \o K_count) \in DOMAIN resp.annotations
        ELSE resp.status = 400 /\ resp.objects = <<>>

(***************************************************************************)
(* C4: a request for Category by a requester without a session is never    *)
(* answered with a row whose slug is "MyTopics".                            *)
(***************************************************************************)
C4_NoVirtualCategoryForAnonymous ==
    (/\ Answered
     /\ ~resp.request.auth
     /\ "model" \in DOMAIN PostOf
     /\ PostOf["model"] = "Category")
    => \A o \in Objects : o.slug # S_MyTopics

C4_Witness ==
    /\ Answered
    /\ ~resp.request.auth
    /\ "model" \in DOMAIN PostOf
    /\ PostOf["model"] = "Category"
    /\ \E c \in categories : c.slug = S_MyTopics
    /\ resp.status = 200
    /\ Len(resp.objects) = 1
    /\ "page" \in DOMAIN PostOf
    /\ IntValue(PostOf["page"]) = 2

(***************************************************************************)
(* C5: a page or per_page that is zero, negative or not an integer is      *)
(* answered 400.                                                            *)
(***************************************************************************)
BadNumber(key) ==
    /\ key \in DOMAIN PostOf
    /\ (IntParses(PostOf[key]) => IntValue(PostOf[key]) < 1)

C5_BadPageIs400 ==
    (Answered /\ resp.request.method = "POST"
        /\ (BadNumber("page") \/ BadNumber("per_page")))
    => resp.status = 400

(***************************************************************************)
(* C6: for a result sequence of N records, page size n >= 1 and page       *)
(* number p >= 1, the answer holds the records at positions (p-1)*n+1 ..   *)
(* min(p*n, N) and has_next is true exactly when p*n < N.                   *)
(***************************************************************************)
NumberOf(key, default) ==
    IF key \in DOMAIN PostOf THEN IntValue(PostOf[key]) ELSE default

GoodNumber(key) == key \in DOMAIN PostOf => (IntParses(PostOf[key]) /\ IntValue(PostOf[key]) >= 1)

Min(a, b) == IF a < b THEN a ELSE b

C6_PageSlice ==
    (/\ Answered
     /\ resp.request.method = "POST"
     /\ "model" \in DOMAIN PostOf
     /\ PostOf["model"] \in ContractModels
     /\ GoodNumber("page")
     /\ GoodNumber("per_page"))
    => LET sequence == QueryRows(PostOf["model"], EmptyDict, resp.request.auth)
           N == Len(sequence)
           p == NumberOf("page", DefaultPage)
           n == NumberOf("per_page", DefaultPerPage)
       IN  /\ resp.status = 200
           /\ resp.objects = SubSeq(sequence, (p - 1) * n + 1, Min(p * n, N))
           /\ resp.has_next = (p * n < N)

(***************************************************************************)
(* C7: the endpoint accepts a request exactly when its model is Reply,     *)
(* Category or Topic; a missing or other model is answered 400 and no      *)
(* query is run.                                                            *)
(***************************************************************************)
C7_ModelAllowList ==
    (/\ Answered
     /\ resp.request.method = "POST"
     /\ GoodNumber("page")
     /\ GoodNumber("per_page"))
    => IF "model" \in DOMAIN PostOf /\ PostOf["model"] \in ContractModels
       THEN resp.stage # "model"
       ELSE resp.status = 400 /\ resp.stage = "model" /\ ~resp.queried

(***************************************************************************)
(* C9: an exception raised while the query is composed or evaluated, at    *)
(* pagination or serialization, is answered 400.                            *)
(***************************************************************************)
C9_QueryErrorsAre400 ==
    (Answered /\ resp.stage \in {"compose", "paginate", "serialize"})
    => resp.status = 400

(***************************************************************************)
(* C8: an authenticated POST to /new-reply/ whose topic_slug matches no    *)
(* Topic is answered 404 with status "error" and leaves the Replies as     *)
(* they were; a Reply is persisted only by a request answered "success".   *)
(***************************************************************************)
C8_NotFound ==
    (/\ resp.handler = "new_reply"
     /\ resp.auth
     /\ resp.json_ok
     /\ ~\E t \in topics : t.slug = resp.slug)
    => (resp.status = 404 /\ resp.body = "error")

C8_RepliesStep ==
    /\ (resp' # resp /\ resp'.handler = "new_reply" /\ resp'.status = 404)
          => replies' = replies
    /\ replies' # replies
          => (/\ resp'.handler = "new_reply"
              /\ resp'.status = 200
              /\ resp'.body = "success"
              /\ \E r \in replies' : replies' = replies \cup {r})

C8_NewReplyNotFound == []C8_NotFound /\ [][C8_RepliesStep]_vars

C8_Witness ==
    /\ resp.handler = "new_reply"
    /\ resp.auth
    /\ resp.json_ok
    /\ resp.slug = S_nonexistent
    /\ resp.status = 404
    /\ topics # {}
    /\ replies # {}

(***************************************************************************)
(* C10: no two persisted records of one kind share a slug, whatever the    *)
(* interleaving of the creations; an INSERT whose slug is already in the   *)
(* table persists nothing and its request fails.                            *)
(***************************************************************************)
UniqueSlugs(rows) == \A r1, r2 \in rows : r1.slug = r2.slug => r1 = r2

C10_Unique ==
    /\ UniqueSlugs(categories)
    /\ UniqueSlugs(topics)
    /\ UniqueSlugs(replies)

Table(kind) ==
    CASE kind = "Category" -> categories
      [] kind = "Topic" -> topics
      [] kind = "Reply" -> replies

C10_CollisionStep ==
    \A w \in Workers :
        (/\ wk[w].pc = "insert"
         /\ wk'[w].pc = "idle"
         /\ \E r \in Table(wk[w].kind) : r.slug = wk[w].inst.slug)
        => (/\ UNCHANGED <<categories, topics, replies>>
            /\ resp'.status = 500)

C10_SlugsUnique == []C10_Unique /\ [][C10_CollisionStep]_vars

C10_Witness ==
    /\ resp.handler = "new_topic"
    /\ resp.status = 500
    /\ resp.body = "IntegrityError"
    /\ \E w \in Workers :
          /\ wk[w].pc = "insert"
          /\ wk[w].kind = "Reply"
          /\ \E r \in replies : r.slug = wk[w].inst.slug

====
